---- MODULE Spec2Model ----
(***************************************************************************)
(* Inventory consistency engine of src/server.js: shelves with their grid  *)
(* of positions, materials placed on positions, inspections.               *)
(*                                                                         *)
(* Every handler is an async function: it runs up to its next `await`,     *)
(* the awaited MongoDB operation is applied atomically to one document     *)
(* (or one collection), and other handlers may run between two awaits.     *)
(* One action of the model is one awaited database operation together      *)
(* with the synchronous code that follows it up to the next await (or up   *)
(* to the response).  A handler that is between two awaits is a frame in   *)
(* the bag `inflight`.                                                     *)
(***************************************************************************)
EXTENDS Integers, Sequences, FiniteSets, Bags, TLC

(***************************************************************************)
(* Bounds of the model.                                                    *)
(***************************************************************************)
\* requests handled one at a time: the numbers of shelf ids and of material ids the
\* store hands out, and of inspections it stores
MaxShelves == 1
MaxMaterials == 1
MaxInspections == 1
\* interleaved handlers: the number of handlers running (between awaits) at the same
\* time, and the numbers of shelf ids and of material ids the store hands out
MaxRequests == 2
RaceShelves == 2
RaceMaterials == 2
\* condition scores: the number of material ids the store hands out
ScoredMaterials == 1
\* statistics: the number of handlers running at the same time, and the numbers of
\* shelf ids and of material ids the store hands out
StatsRequests == 2
StatsShelves == 1
StatsMaterials == 1
\* inspections, one request at a time: the numbers of material ids the store hands
\* out and of inspections it stores
InspectedMaterials == 2
InspectedInspections == 1

(***************************************************************************)
(* Values.                                                                 *)
(***************************************************************************)
\* null / undefined reference (an absent ObjectId, an absent date)
NoId == 0
\* well-formed ObjectIds that the store never handed out (it hands out 1, 2, ...)
GhostShelf == -1
GhostMaterial == -2

\* request inputs
Rows == {"A"}
Numbers == {1, 2}
PositionInputs == {"A1-H1", "A2-B3"}
Dates == {1}
InspectionDates == {1, 2}
UpdateKeys == {"condition", "shelfId", "position"}

\* const levels = ['H', 'M', 'B']
levels == <<"H", "M", "B">>

\* level === 'H' ? 'Haut' : level === 'M' ? 'Milieu' : 'Bas'
LevelName(level) == IF level = "H" THEN "Haut" ELSE IF level = "M" THEN "Milieu" ELSE "Bas"

\* `${row}${number}-${level}${i}`
PositionId(row, number, level, i) == row \o ToString(number) \o "-" \o level \o ToString(i)

\* a slip: the slot index counted from 0
NewPositionsFromZero(row, number) ==
    [k \in 1..(Len(levels) * 3) |->
        LET level == levels[((k - 1) \div 3) + 1]
            i == (k - 1) % 3
        IN [positionId |-> PositionId(row, number, level, i),
            level |-> LevelName(level),
            positionNumber |-> i,
            occupied |-> FALSE,
            materialId |-> NoId]]

\* levels.forEach(level => for (i = 1; i <= 3; i++) positions.push({...}))
NewPositions(row, number) ==
    [k \in 1..(Len(levels) * 3) |->
        LET level == levels[((k - 1) \div 3) + 1]
            i == ((k - 1) % 3) + 1
        IN [positionId |-> PositionId(row, number, level, i),
            level |-> LevelName(level),
            positionNumber |-> i,
            occupied |-> FALSE,
            materialId |-> NoId]]

VARIABLES
    shelves,        \* Shelf collection: _id -> [row, number, positions]
    materials,      \* Material collection: _id -> [condition, state, shelfId, position, lastInspection]
    inspections,    \* Inspection collection: sequence of [date, materials]
    nextShelfId,    \* next fresh Shelf _id
    nextMaterialId, \* next fresh Material _id
    inflight,       \* bag of handler frames suspended at an await
    last            \* the last response sent, and the request it answers:
                    \* [op, status, body, req]

vars == <<shelves, materials, inspections, nextShelfId, nextMaterialId, inflight, last>>

Init ==
    /\ shelves = <<>>
    /\ materials = <<>>
    /\ inspections = <<>>
    /\ nextShelfId = 1
    /\ nextMaterialId = 1
    /\ inflight = EmptyBag
    /\ last = [op |-> "none", status |-> 0, body |-> NoId, req |-> <<>>]

(***************************************************************************)
(* Helpers on the store.                                                   *)
(***************************************************************************)
\* res.status(code).json(body): body is the _id of the returned document, NoId for
\* null, a message or an error; req is the Material document a deleteMaterial had
\* read (its id and placement), empty for the other requests
Respond(op, status, body, req) ==
    last' = [op |-> op, status |-> status, body |-> body, req |-> req]

\* a handler's frame is suspended at an await / resumes from it
Suspend(frame) == inflight' = inflight (+) SetToBag({frame})
Resume(frame, next) == inflight' = (inflight (-) SetToBag({frame})) (+) next
Frames == BagToSet(inflight)

\* the stored records; a frame keeps, as `before`, the records as they were when
\* its request was taken (a history field: the handlers do not read it)
Stored == [shelves |-> shelves, materials |-> materials, inspections |-> inspections]

\* a new request is taken while fewer than in.cap handlers are running
Admit(in) == BagCardinality(inflight) < in.cap

\* collection with document id removed / added
Without(coll, id) == [x \in DOMAIN coll \ {id} |-> coll[x]]
With(coll, id, doc) == [x \in DOMAIN coll \cup {id} |-> IF x = id THEN doc ELSE coll[x]]

\* a slip: the update sets the occupied flag and leaves the material reference
SetOccupancyFlagOnly(sh, shelfId, position, occupied, materialId) ==
    IF shelfId \in DOMAIN sh
    THEN [sh EXCEPT ![shelfId].positions =
            [k \in DOMAIN sh[shelfId].positions |->
                LET pos == sh[shelfId].positions[k]
                IN IF pos.positionId = position
                   THEN [pos EXCEPT !.occupied = occupied]
                   ELSE pos]]
    ELSE sh

\* Shelf.findByIdAndUpdate(shelfId, {$set: {"positions.$[pos].occupied": occupied,
\*   "positions.$[pos].materialId": materialId}}, {arrayFilters: [{"pos.positionId": position}]})
SetOccupancy(sh, shelfId, position, occupied, materialId) ==
    IF shelfId \in DOMAIN sh
    THEN [sh EXCEPT ![shelfId].positions =
            [k \in DOMAIN sh[shelfId].positions |->
                LET pos == sh[shelfId].positions[k]
                IN IF pos.positionId = position
                   THEN [pos EXCEPT !.occupied = occupied, !.materialId = materialId]
                   ELSE pos]]
    ELSE sh

\* a slip: strict comparisons
ClassifyStrict(condition) ==
    IF condition > 80 THEN "good"
    ELSE IF condition > 40 THEN "warning"
    ELSE "bad"

\* condition >= 80 -> good, >= 40 -> warning, else bad
Classify(condition) ==
    IF condition >= 80 THEN "good"
    ELSE IF condition >= 40 THEN "warning"
    ELSE "bad"

(***************************************************************************)
(* 2. Shelves                                                              *)
(***************************************************************************)
\* await Shelf.findOne({row, number}); if (existingShelf) return 400
CreateShelfFind(in) ==
    /\ Admit(in)
    /\ nextShelfId + Cardinality({f \in Frames : f.op = "createShelf"}) <= in.shelves
    /\ \E row \in Rows, number \in Numbers :
        IF \E s \in DOMAIN shelves : shelves[s].row = row /\ shelves[s].number = number
        THEN /\ Respond("createShelf", 400, NoId, <<>>)
             /\ UNCHANGED <<shelves, materials, inspections, nextShelfId, nextMaterialId, inflight>>
        ELSE /\ Suspend([op |-> "createShelf", pc |-> "save", row |-> row, number |-> number,
                           before |-> Stored])
             /\ UNCHANGED <<shelves, materials, inspections, nextShelfId, nextMaterialId, last>>

\* new Shelf({name, row, number, color, positions}); await shelf.save(); 201
CreateShelfSave ==
    \E f \in Frames :
        /\ f.op = "createShelf" /\ f.pc = "save"
        /\ Resume(f, EmptyBag)
        /\ shelves' = With(shelves, nextShelfId,
                [row |-> f.row, number |-> f.number,
                 positions |-> NewPositions(f.row, f.number)])
        /\ nextShelfId' = nextShelfId + 1
        /\ Respond("createShelf", 201, nextShelfId, <<>>)
        /\ UNCHANGED <<materials, inspections, nextMaterialId>>

\* await Shelf.findByIdAndDelete(req.params.id); 200
DeleteShelf(in) ==
    /\ Admit(in)
    /\ \E id \in (1..(nextShelfId - 1)) \cup {GhostShelf} :
        /\ shelves' = Without(shelves, id)
        /\ Respond("deleteShelf", 200, NoId, <<>>)
    /\ UNCHANGED <<materials, inspections, nextShelfId, nextMaterialId, inflight>>

(***************************************************************************)
(* 3. Materials                                                            *)
(***************************************************************************)
\* the shelfId of a request body: none, an id the store handed out (the shelf may
\* have been deleted since), or one of in.shelfIds
ShelfIdInputs(in) == {NoId} \cup (1..(nextShelfId - 1)) \cup in.shelfIds
\* the :id of a request: an id the store handed out, or one it never did
MaterialIdInputs == (1..(nextMaterialId - 1)) \cup {GhostMaterial}

\* MaterialSchema validation run by material.save(): condition: { min: 0, max: 100 }
\* (the required fields are taken as present)
ValidMaterial(condition) == condition >= 0 /\ condition <= 100

\* state from condition; new Material(materialData); await material.save();
\* if (material.shelfId) -> the occupancy update, else 201
CreateMaterialSaveOf(condition, shelfId, position) ==
    IF ~ValidMaterial(condition)
    THEN /\ Respond("createMaterial", 400, NoId, <<>>)
         /\ UNCHANGED <<shelves, materials, inspections, nextShelfId, nextMaterialId, inflight>>
    ELSE /\ materials' = With(materials, nextMaterialId,
                [condition |-> condition, state |-> Classify(condition),
                 shelfId |-> shelfId, position |-> position,
                 lastInspection |-> NoId])
         /\ nextMaterialId' = nextMaterialId + 1
         /\ IF shelfId # NoId
            THEN /\ Suspend([op |-> "createMaterial", pc |-> "occupy",
                             id |-> nextMaterialId, shelfId |-> shelfId,
                             position |-> position, before |-> Stored])
                 /\ UNCHANGED last
            ELSE /\ Respond("createMaterial", 201, nextMaterialId, <<>>)
                 /\ UNCHANGED inflight
         /\ UNCHANGED <<shelves, inspections, nextShelfId>>

CreateMaterialSave(in) ==
    /\ Admit(in)
    /\ nextMaterialId <= in.materials
    /\ \E condition \in in.conditions, shelfId \in ShelfIdInputs(in),
          position \in PositionInputs :
        CreateMaterialSaveOf(condition, shelfId, position)

\* a slip: the handler answers 201 without the occupancy update
CreateMaterialOccupyOfNoWrite(f) ==
    /\ f.op = "createMaterial" /\ f.pc = "occupy"
    /\ Resume(f, EmptyBag)
    /\ Respond("createMaterial", 201, f.id, <<>>)
    /\ UNCHANGED <<shelves, materials, inspections, nextShelfId, nextMaterialId>>

\* await Shelf.findByIdAndUpdate(material.shelfId, {$set occupied: true, materialId:
\* material._id}, {arrayFilters: [{"pos.positionId": material.position}]}); 201
CreateMaterialOccupyOf(f) ==
    /\ f.op = "createMaterial" /\ f.pc = "occupy"
    /\ shelves' = SetOccupancy(shelves, f.shelfId, f.position, TRUE, f.id)
    /\ Resume(f, EmptyBag)
    /\ Respond("createMaterial", 201, f.id, <<>>)
    /\ UNCHANGED <<materials, inspections, nextShelfId, nextMaterialId>>

CreateMaterialOccupy == \E f \in Frames : CreateMaterialOccupyOf(f)

\* if (updateData.condition): a JSON number is truthy unless it is 0
Truthy(condition) == condition # 0

\* parseInt of an integer JSON number gives that integer
ParseInt(condition) == condition

\* the update document sent to findByIdAndUpdate: the request's fields, plus state
\* when the condition is truthy
UpdateData(keys, condition, shelfId, position) ==
    [has |-> IF "condition" \in keys /\ Truthy(condition)
             THEN keys \cup {"state"} ELSE keys,
     condition |-> condition,
     state |-> Classify(ParseInt(condition)),
     shelfId |-> shelfId,
     position |-> position]

\* the document after $set of the fields of the update document (no validators run)
Merge(doc, upd) ==
    [condition |-> IF "condition" \in upd.has THEN upd.condition ELSE doc.condition,
     state |-> IF "state" \in upd.has THEN upd.state ELSE doc.state,
     shelfId |-> IF "shelfId" \in upd.has THEN upd.shelfId ELSE doc.shelfId,
     position |-> IF "position" \in upd.has THEN upd.position ELSE doc.position,
     lastInspection |-> doc.lastInspection]

\* await Material.findByIdAndUpdate(id, updateData, {new: true}); res.json(material)
UpdateMaterialOf(id, keys, condition, shelfId, position) ==
    /\ IF id \in DOMAIN materials
       THEN /\ materials' = [materials EXCEPT ![id] =
                    Merge(@, UpdateData(keys, condition, shelfId, position))]
            /\ Respond("updateMaterial", 200, id, <<>>)
       ELSE /\ UNCHANGED materials
            /\ Respond("updateMaterial", 200, NoId, <<>>)
    /\ UNCHANGED <<shelves, inspections, nextShelfId, nextMaterialId, inflight>>

\* the values a field of the update may take; a field that is not sent has none
FieldInputs(key, keys, values) == IF key \in keys THEN values ELSE {NoId}

UpdateMaterial(in) ==
    /\ Admit(in)
    /\ \E id \in MaterialIdInputs, keys \in in.updates :
       \E condition \in FieldInputs("condition", keys, in.conditions),
          shelfId \in FieldInputs("shelfId", keys, ShelfIdInputs(in)),
          position \in FieldInputs("position", keys, PositionInputs) :
        UpdateMaterialOf(id, keys, condition, shelfId, position)

\* a slip: material?.shelfId, so that a null material goes on to the removal
DeleteMaterialFindOfLenient(id) ==
    /\ Suspend([op |-> "deleteMaterial",
                pc |-> IF id \in DOMAIN materials /\ materials[id].shelfId # NoId
                       THEN "free" ELSE "remove",
                id |-> id,
                shelfId |-> IF id \in DOMAIN materials THEN materials[id].shelfId ELSE NoId,
                position |-> IF id \in DOMAIN materials THEN materials[id].position ELSE "",
                before |-> Stored])
    /\ UNCHANGED <<shelves, materials, inspections, nextShelfId, nextMaterialId, last>>

\* const material = await Material.findById(id); material.shelfId throws a
\* TypeError when material is null -> catch -> 400
DeleteMaterialFindOf(id) ==
    /\ IF id \notin DOMAIN materials
       THEN /\ Respond("deleteMaterial", 400, NoId, <<>>)
            /\ UNCHANGED inflight
       ELSE /\ Suspend([op |-> "deleteMaterial",
                        pc |-> IF materials[id].shelfId # NoId THEN "free" ELSE "remove",
                        id |-> id, shelfId |-> materials[id].shelfId,
                        position |-> materials[id].position, before |-> Stored])
            /\ UNCHANGED last
    /\ UNCHANGED <<shelves, materials, inspections, nextShelfId, nextMaterialId>>

DeleteMaterialFind(in) ==
    /\ Admit(in)
    /\ \E id \in MaterialIdInputs : DeleteMaterialFindOf(id)

\* a slip: the handler goes on to the removal without freeing the position
DeleteMaterialFreeOfNoWrite(f) ==
    /\ f.op = "deleteMaterial" /\ f.pc = "free"
    /\ Resume(f, SetToBag({[f EXCEPT !.pc = "remove"]}))
    /\ UNCHANGED <<shelves, materials, inspections, nextShelfId, nextMaterialId, last>>

\* await Shelf.findByIdAndUpdate(material.shelfId, {$set occupied: false, materialId:
\* null}, {arrayFilters: [{"pos.positionId": material.position}]})
DeleteMaterialFreeOf(f) ==
    /\ f.op = "deleteMaterial" /\ f.pc = "free"
    /\ shelves' = SetOccupancy(shelves, f.shelfId, f.position, FALSE, NoId)
    /\ Resume(f, SetToBag({[f EXCEPT !.pc = "remove"]}))
    /\ UNCHANGED <<materials, inspections, nextShelfId, nextMaterialId, last>>

DeleteMaterialFree == \E f \in Frames : DeleteMaterialFreeOf(f)

\* await Material.findByIdAndDelete(id); 200
DeleteMaterialRemoveOf(f) ==
    /\ f.op = "deleteMaterial" /\ f.pc = "remove"
    /\ materials' = Without(materials, f.id)
    /\ Resume(f, EmptyBag)
    /\ Respond("deleteMaterial", 200, NoId,
               [id |-> f.id, shelfId |-> f.shelfId, position |-> f.position])
    /\ UNCHANGED <<shelves, inspections, nextShelfId, nextMaterialId>>

DeleteMaterialRemove == \E f \in Frames : DeleteMaterialRemoveOf(f)

(***************************************************************************)
(* 4. Inspections                                                          *)
(***************************************************************************)
\* the elements of a list
Range(q) == {q[i] : i \in DOMAIN q}

\* the lists without repetition of elements of ids
Lists(ids) ==
    UNION {{q \in [1..n -> ids] : \A i, j \in 1..n : i # j => q[i] # q[j]} :
            n \in 0..Cardinality(ids)}

\* req.body.materials: a list of ids the store handed out (their Materials may have
\* been deleted since), in any order or, with in.anyOrder false, in ascending order
MaterialLists(in) ==
    {q \in Lists(1..(nextMaterialId - 1)) :
        in.anyOrder \/ \A i \in 1..(Len(q) - 1) : q[i] < q[i + 1]}

\* new Inspection(req.body); await inspection.save()
RecordInspectionSaveOf(date, mats) ==
    /\ inspections' = Append(inspections, [date |-> date, materials |-> mats])
    /\ Suspend([op |-> "recordInspection", pc |-> "cascade", date |-> date,
                materials |-> mats, before |-> Stored])
    /\ UNCHANGED <<shelves, materials, nextShelfId, nextMaterialId, last>>

RecordInspectionSave(in) ==
    /\ Admit(in)
    /\ Len(inspections) < in.inspections
    /\ \E date \in in.dates, mats \in MaterialLists(in) :
        RecordInspectionSaveOf(date, mats)

\* a slip: Material.updateOne, which updates the first match only
RecordInspectionCascadeOfOne(f) ==
    /\ f.op = "recordInspection" /\ f.pc = "cascade"
    /\ materials' = [m \in DOMAIN materials |->
            IF m \in Range(f.materials) /\ \A n \in Range(f.materials) \cap DOMAIN materials : m <= n
            THEN [materials[m] EXCEPT !.lastInspection = f.date]
            ELSE materials[m]]
    /\ Resume(f, EmptyBag)
    /\ Respond("recordInspection", 201, NoId, <<>>)
    /\ UNCHANGED <<shelves, inspections, nextShelfId, nextMaterialId>>

\* await Material.updateMany({_id: {$in: inspection.materials}},
\*   {lastInspection: inspection.date}); 201
RecordInspectionCascadeOf(f) ==
    /\ f.op = "recordInspection" /\ f.pc = "cascade"
    /\ materials' = [m \in DOMAIN materials |->
            IF m \in Range(f.materials)
            THEN [materials[m] EXCEPT !.lastInspection = f.date]
            ELSE materials[m]]
    /\ Resume(f, EmptyBag)
    /\ Respond("recordInspection", 201, NoId, <<>>)
    /\ UNCHANGED <<shelves, inspections, nextShelfId, nextMaterialId>>

RecordInspectionCascade == \E f \in Frames : RecordInspectionCascadeOf(f)

(***************************************************************************)
(* 5. Statistics                                                           *)
(***************************************************************************)
\* the figures of the response, in the order in which the handler reads them
StatsKeys == <<"totalMaterials", "goodMaterials", "warningMaterials", "badMaterials",
               "totalShelves", "occupiedPositions">>

\* Material.countDocuments({state})
CountState(st, state) ==
    Cardinality({m \in DOMAIN st.materials : st.materials[m].state = state})

\* Shelf.aggregate([{$unwind: '$positions'}, {$match: {'positions.occupied': true}},
\*   {$count: 'occupied'}]); occupiedPositions[0]?.occupied || 0
CountOccupied(st) ==
    Cardinality({p \in (DOMAIN st.shelves) \X (1..(Len(levels) * 3)) :
                    st.shelves[p[1]].positions[p[2]].occupied})

\* what each read of the handler returns when the stored records are st
Figures(st) ==
    [totalMaterials |-> Cardinality(DOMAIN st.materials),
     goodMaterials |-> CountState(st, "good"),
     warningMaterials |-> CountState(st, "warning"),
     badMaterials |-> CountState(st, "bad"),
     totalShelves |-> Cardinality(DOMAIN st.shelves),
     occupiedPositions |-> CountOccupied(st)]

\* no figure read yet
NoFigures == [k \in {StatsKeys[i] : i \in DOMAIN StatsKeys} |-> -1]

\* a stats frame keeps, as `held`, the stored records that held during its call (a
\* history field: the handler does not read it)
Observed == \A f \in Frames : f.op = "stats" => Stored \in f.held

\* the history of a running stats call takes in the records as they are now
StatsObserve ==
    \E f \in Frames :
        /\ f.op = "stats" /\ Stored \notin f.held
        /\ Resume(f, SetToBag({[f EXCEPT !.held = @ \cup {Stored}]}))
        /\ UNCHANGED <<shelves, materials, inspections, nextShelfId, nextMaterialId, last>>

\* const totalMaterials = await Material.countDocuments()
StatsBegin(in) ==
    /\ Admit(in)
    /\ \A f \in Frames : f.op # "stats"
    /\ Suspend([op |-> "stats", pc |-> 2,
                figures |-> [NoFigures EXCEPT ![StatsKeys[1]] = Figures(Stored)[StatsKeys[1]]],
                held |-> {Stored}])
    /\ UNCHANGED <<shelves, materials, inspections, nextShelfId, nextMaterialId, last>>

\* the next awaited read: goodMaterials, warningMaterials, badMaterials,
\* totalShelves, occupiedPositions, then categoryStats (the model's Materials have
\* no category: nothing is kept of it)
StatsRead ==
    \E f \in Frames :
        /\ f.op = "stats" /\ f.pc <= Len(StatsKeys) + 1
        /\ Resume(f, SetToBag({[f EXCEPT
                !.pc = @ + 1,
                !.figures = IF f.pc <= Len(StatsKeys)
                            THEN [@ EXCEPT ![StatsKeys[f.pc]] = Figures(Stored)[StatsKeys[f.pc]]]
                            ELSE @,
                !.held = @ \cup {Stored}]}))
        /\ UNCHANGED <<shelves, materials, inspections, nextShelfId, nextMaterialId, last>>

\* conditionAverage: await Material.aggregate([...]) inside the response; res.json
StatsRespond ==
    \E f \in Frames :
        /\ f.op = "stats" /\ f.pc = Len(StatsKeys) + 2
        /\ Resume(f, EmptyBag)
        /\ Respond("stats", 200, f.figures, <<>>)
        /\ UNCHANGED <<shelves, materials, inspections, nextShelfId, nextMaterialId>>

(***************************************************************************)
(* Rejected operations                                                     *)
(***************************************************************************)
Routes == {"createShelf", "createMaterial", "updateMaterial", "deleteMaterial",
           "recordInspection"}

\* an awaited database operation rejects (the store cannot be reached, the write
\* fails): nothing is written by it, and the handler's catch answers 400.  Either
\* the first operation of a new request, or the one a suspended handler waits for.
AwaitRejects(in) ==
    \/ /\ Admit(in)
       /\ \E op \in Routes : Respond(op, 400, NoId, <<>>)
       /\ UNCHANGED <<shelves, materials, inspections, nextShelfId, nextMaterialId, inflight>>
    \/ \E f \in Frames :
        /\ Resume(f, EmptyBag)
        /\ Respond(f.op, 400, NoId, <<>>)
        /\ UNCHANGED <<shelves, materials, inspections, nextShelfId, nextMaterialId>>

(***************************************************************************)
(* Specifications                                                          *)
(***************************************************************************)
\* condition scores of the requests: under, at and over the two thresholds, the
\* falsy 0, and one beyond the schema's max
Conditions == {0, 39, 40, 79, 80, 101}
\* placement does not read the condition: one valid score is enough
PlacementConditions == {90}

\* what the requests of a specification are drawn from: how many handlers run at
\* the same time, how many ids the store hands out, the condition scores, the
\* shelf ids a request names beside those the store handed out, the sets of
\* fields an update's body carries, the dates of the inspections and whether their
\* lists of materials come in any order
Serial ==
    [cap |-> 1, shelves |-> MaxShelves, materials |-> MaxMaterials,
     inspections |-> MaxInspections, conditions |-> PlacementConditions,
     shelfIds |-> {}, updates |-> {{}, {"condition"}, {"shelfId", "position"}},
     dates |-> Dates, anyOrder |-> FALSE]
Race ==
    [cap |-> MaxRequests, shelves |-> RaceShelves, materials |-> RaceMaterials,
     inspections |-> 0, conditions |-> PlacementConditions, shelfIds |-> {},
     updates |-> {}, dates |-> {}, anyOrder |-> FALSE]
Scoring ==
    [cap |-> 1, shelves |-> 0, materials |-> ScoredMaterials,
     inspections |-> 0, conditions |-> Conditions, shelfIds |-> {GhostShelf},
     updates |-> SUBSET UpdateKeys, dates |-> {}, anyOrder |-> FALSE]
Counting ==
    [cap |-> StatsRequests, shelves |-> StatsShelves, materials |-> StatsMaterials,
     inspections |-> 0, conditions |-> {39, 90}, shelfIds |-> {}, updates |-> {},
     dates |-> {}, anyOrder |-> FALSE]
Inspecting ==
    [cap |-> 1, shelves |-> 0, materials |-> InspectedMaterials,
     inspections |-> InspectedInspections, conditions |-> PlacementConditions,
     shelfIds |-> {}, updates |-> {}, dates |-> InspectionDates, anyOrder |-> TRUE]

\* one request at a time: a request is taken only when no handler is running
Next ==
    \/ CreateShelfFind(Serial)
    \/ CreateShelfSave
    \/ DeleteShelf(Serial)
    \/ CreateMaterialSave(Serial)
    \/ CreateMaterialOccupy
    \/ UpdateMaterial(Serial)
    \/ DeleteMaterialFind(Serial)
    \/ DeleteMaterialFree
    \/ DeleteMaterialRemove
    \/ RecordInspectionSave(Serial)
    \/ RecordInspectionCascade

Spec == Init /\ [][Next]_vars

\* the handlers that create and delete shelves and materials interleave at their awaits
RaceNext ==
    \/ CreateShelfFind(Race)
    \/ CreateShelfSave
    \/ DeleteShelf(Race)
    \/ CreateMaterialSave(Race)
    \/ CreateMaterialOccupy
    \/ DeleteMaterialFind(Race)
    \/ DeleteMaterialFree
    \/ DeleteMaterialRemove

RaceSpec == Init /\ [][RaceNext]_vars

\* one request at a time, materials only, every condition score
ConditionNext ==
    \/ CreateMaterialSave(Scoring)
    \/ CreateMaterialOccupy
    \/ UpdateMaterial(Scoring)
    \/ DeleteMaterialFind(Scoring)
    \/ DeleteMaterialFree
    \/ DeleteMaterialRemove

ConditionSpec == Init /\ [][ConditionNext]_vars

\* one request at a time, materials without placement and inspections of them, the
\* lists of materials in any order
InspectionNext ==
    \/ CreateMaterialSave(Inspecting)
    \/ DeleteMaterialFind(Inspecting)
    \/ DeleteMaterialRemove
    \/ RecordInspectionSave(Inspecting)
    \/ RecordInspectionCascade

InspectionSpec == Init /\ [][InspectionNext]_vars

\* a stats call interleaves with the handlers that create and delete shelves and
\* materials; the stored records change only once the history of a running stats
\* call has taken them in
StatsNext ==
    \/ Observed /\ CreateShelfFind(Counting)
    \/ Observed /\ CreateShelfSave
    \/ Observed /\ DeleteShelf(Counting)
    \/ Observed /\ CreateMaterialSave(Counting)
    \/ Observed /\ CreateMaterialOccupy
    \/ Observed /\ DeleteMaterialFind(Counting)
    \/ Observed /\ DeleteMaterialFree
    \/ Observed /\ DeleteMaterialRemove
    \/ StatsObserve
    \/ StatsBegin(Counting)
    \/ StatsRead
    \/ StatsRespond

StatsSpec == Init /\ [][StatsNext]_vars

\* one request at a time, and any awaited operation may reject
FailureNext ==
    \/ CreateShelfFind(Serial)
    \/ CreateShelfSave
    \/ DeleteShelf(Serial)
    \/ CreateMaterialSave(Serial)
    \/ CreateMaterialOccupy
    \/ UpdateMaterial(Serial)
    \/ DeleteMaterialFind(Serial)
    \/ DeleteMaterialFree
    \/ DeleteMaterialRemove
    \/ RecordInspectionSave(Serial)
    \/ RecordInspectionCascade
    \/ AwaitRejects(Serial)

FailureSpec == Init /\ [][FailureNext]_vars

(***************************************************************************)
(* Properties                                                              *)
(***************************************************************************)
Quiet == inflight = EmptyBag

\* the positions of stored shelf s
PositionsOf(s) == {shelves[s].positions[k] : k \in DOMAIN shelves[s].positions}

\* C1: in every reachable state every position of every shelf is occupied if and
\* only if its material reference is not null.
C1_OccupiedIffReferenced ==
    \A s \in DOMAIN shelves : \A pos \in PositionsOf(s) :
        pos.occupied <=> pos.materialId # NoId

\* after a createShelf, a createMaterial and a recordInspection a shelf has a
\* position that is occupied and refers to a material, and one that is neither
C1_Witness ==
    /\ Quiet
    /\ Len(inspections) > 0
    /\ \E s \in DOMAIN shelves :
        /\ \E pos \in PositionsOf(s) : pos.occupied /\ pos.materialId # NoId
        /\ \E pos \in PositionsOf(s) : ~pos.occupied /\ pos.materialId = NoId

\* C2: no two distinct stored Materials have the same shelfId (set) and the same
\* position identifier (stated for the positions that exist, on a stored shelf, and
\* for the states in which no handler is between two of its writes).
C2_AtMostOneClaimant ==
    Quiet =>
        \A m1, m2 \in DOMAIN materials :
            (/\ m1 # m2
             /\ materials[m1].shelfId \in DOMAIN shelves
             /\ materials[m1].shelfId = materials[m2].shelfId
             /\ \E pos \in PositionsOf(materials[m1].shelfId) :
                    pos.positionId = materials[m1].position)
            => materials[m1].position # materials[m2].position

\* C3: every stored Material whose shelfId is set refers to a stored Shelf that has
\* a position with the Material's position identifier, and that position is
\* occupied with its material reference equal to the Material's id (stated for the
\* states in which no handler is between two of its writes).
C3_PlacementMirrored ==
    Quiet =>
        \A m \in DOMAIN materials :
            materials[m].shelfId # NoId =>
                /\ materials[m].shelfId \in DOMAIN shelves
                /\ \E pos \in PositionsOf(materials[m].shelfId) :
                    /\ pos.positionId = materials[m].position
                    /\ pos.occupied
                    /\ pos.materialId = m

\* C4: when createMaterial answers 201 for a shelfId of a stored shelf and a
\* position identifier that the shelf has, that position is occupied and its
\* material reference is the id of the new Material.
C4_CreateOccupiesPosition ==
    [][\A f \in Frames :
        (CreateMaterialOccupyOf(f) /\ f.shelfId \in DOMAIN shelves)
        => /\ last'.status = 201 /\ last'.body = f.id
           /\ f.shelfId \in DOMAIN shelves'
           /\ \A k \in DOMAIN shelves'[f.shelfId].positions :
                LET pos == shelves'[f.shelfId].positions[k]
                IN pos.positionId = f.position => pos.occupied /\ pos.materialId = f.id]_vars

\* createMaterial has answered 201 for a position of a stored shelf
C4_Witness ==
    /\ Quiet
    /\ last.op = "createMaterial" /\ last.status = 201
    /\ last.body \in DOMAIN materials
    /\ materials[last.body].shelfId \in DOMAIN shelves
    /\ \E pos \in PositionsOf(materials[last.body].shelfId) :
        /\ pos.positionId = materials[last.body].position
        /\ pos.occupied
        /\ pos.materialId = last.body

\* C5: when deleteMaterial of a stored Material whose shelfId is set answers, the
\* position of that shelf with the Material's position identifier is unoccupied
\* with a null material reference, and the Material is no longer stored.
C5_DeleteFreesPosition ==
    [][\A f \in Frames :
        (DeleteMaterialRemoveOf(f) /\ f.shelfId # NoId)
        => /\ last'.status = 200
           /\ f.id \notin DOMAIN materials'
           /\ f.shelfId \in DOMAIN shelves' =>
                \A k \in DOMAIN shelves'[f.shelfId].positions :
                    LET pos == shelves'[f.shelfId].positions[k]
                    IN pos.positionId = f.position => ~pos.occupied /\ pos.materialId = NoId]_vars

\* deleteMaterial has answered for a Material placed on a position of a stored shelf
C5_Witness ==
    /\ last.op = "deleteMaterial" /\ last.status = 200
    /\ last.req.id \notin DOMAIN materials
    /\ last.req.shelfId \in DOMAIN shelves
    /\ \E pos \in PositionsOf(last.req.shelfId) :
        pos.positionId = last.req.position /\ ~pos.occupied /\ pos.materialId = NoId

\* C6: no two stored shelves share the same (row, number) pair, for every
\* interleaving of createShelf calls.
C6_UniqueRowNumber ==
    \A s1, s2 \in DOMAIN shelves :
        s1 # s2 => <<shelves[s1].row, shelves[s1].number>> # <<shelves[s2].row, shelves[s2].number>>

\* the short code of a level label
C7_Code(level) == CASE level = "Haut" -> "H" [] level = "Milieu" -> "M" [] level = "Bas" -> "B"

\* 9 positions, 3 for each of the 3 levels with slots 1..3, distinct identifiers
\* {row}{number}-{levelCode}{index}
C7_Grid(shelf) ==
    LET ps == shelf.positions
        ks == DOMAIN ps
    IN /\ Cardinality(ks) = 9
       /\ Cardinality({ps[k].level : k \in ks}) = 3
       /\ \A k \in ks : ps[k].level \in {"Haut", "Milieu", "Bas"}
       /\ \A l \in {ps[k].level : k \in ks} :
            /\ Cardinality({k \in ks : ps[k].level = l}) = 3
            /\ {ps[k].positionNumber : k \in {j \in ks : ps[j].level = l}} = 1..3
       /\ \A k1, k2 \in ks : k1 # k2 => ps[k1].positionId # ps[k2].positionId
       /\ \A k \in ks :
            ps[k].positionId = shelf.row \o ToString(shelf.number) \o "-"
                                \o C7_Code(ps[k].level) \o ToString(ps[k].positionNumber)

\* a shelf that stays stored keeps its positions' identifiers, levels and slots
C7_Stable ==
    \A s \in DOMAIN shelves \cap DOMAIN shelves' :
        /\ DOMAIN shelves'[s].positions = DOMAIN shelves[s].positions
        /\ \A k \in DOMAIN shelves[s].positions :
            /\ shelves'[s].positions[k].positionId = shelves[s].positions[k].positionId
            /\ shelves'[s].positions[k].level = shelves[s].positions[k].level
            /\ shelves'[s].positions[k].positionNumber = shelves[s].positions[k].positionNumber

\* a createShelf stores its shelf with every position unoccupied
C7_Fresh ==
    \A s \in DOMAIN shelves' \ DOMAIN shelves :
        \A k \in DOMAIN shelves'[s].positions :
            /\ ~shelves'[s].positions[k].occupied
            /\ shelves'[s].positions[k].materialId = NoId

\* C7: every stored shelf has exactly 9 positions, 3 for each of the 3 levels with
\* slots 1..3 and pairwise distinct identifiers {row}{number}-{levelCode}{index},
\* all unoccupied right after createShelf; no later operation adds a position,
\* removes one, or changes a position's identifier, level or slot number.
C7_FixedGrid ==
    [][shelves' # shelves =>
        /\ \A s \in DOMAIN shelves' : C7_Grid(shelves'[s])
        /\ C7_Fresh
        /\ C7_Stable]_vars

\* a shelf was created, a material was placed on one of its positions and deleted
\* again, and the shelf has its 9 positions
C7_Witness ==
    /\ last.op = "deleteMaterial" /\ last.status = 200
    /\ last.req.shelfId \in DOMAIN shelves
    /\ \E pos \in PositionsOf(last.req.shelfId) : pos.positionId = last.req.position
    /\ Cardinality(PositionsOf(last.req.shelfId)) = 9

\* the state the Classifier gives a condition score
C8_StateOf(c) == IF c >= 80 THEN "good" ELSE IF c >= 40 THEN "warning" ELSE "bad"

\* C8: updateMaterial on a stored Material with condition in the update fields (any
\* integer 0..100, 0 included) stores state = classify(new condition); when only
\* condition is in the update, position and shelfId are unchanged.
C8_UpdateReclassifies ==
    [][\A id \in DOMAIN materials, keys \in Scoring.updates :
       \A c \in FieldInputs("condition", keys, Conditions),
          sid \in FieldInputs("shelfId", keys, ShelfIdInputs(Scoring)),
          p \in FieldInputs("position", keys, PositionInputs) :
        (UpdateMaterialOf(id, keys, c, sid, p) /\ "condition" \in keys /\ c \in 0..100)
        => /\ materials'[id].state = C8_StateOf(c)
           /\ keys = {"condition"} =>
                /\ materials'[id].position = materials[id].position
                /\ materials'[id].shelfId = materials[id].shelfId]_vars

\* C9: createMaterial stores state = classify(condition), where exactly one of the
\* three results applies: good iff c >= 80, warning iff 40 <= c < 80, bad iff c < 40;
\* the classification that updateMaterial applies uses the same thresholds.
C9_Thresholds ==
    [][/\ nextMaterialId' # nextMaterialId =>
            \A c \in Conditions :
                materials'[nextMaterialId].condition = c =>
                    \A sid \in ShelfIdInputs(Scoring), p \in PositionInputs :
                        CreateMaterialSaveOf(c, sid, p)
                        => LET st == materials'[nextMaterialId].state
                           IN /\ st = "good" <=> c >= 80
                              /\ st = "warning" <=> (40 <= c /\ c < 80)
                              /\ st = "bad" <=> c < 40
       /\ (last'.op = "updateMaterial" /\ last'.body \in DOMAIN materials) =>
            \A keys \in Scoring.updates, c \in Conditions :
                ("condition" \in keys /\ Truthy(c) /\ materials'[last'.body].condition = c) =>
                    \A sid \in FieldInputs("shelfId", keys, ShelfIdInputs(Scoring)),
                       p \in FieldInputs("position", keys, PositionInputs) :
                        UpdateMaterialOf(last'.body, keys, c, sid, p)
                        => LET st == materials'[last'.body].state
                           IN /\ st = "good" <=> c >= 80
                              /\ st = "warning" <=> (40 <= c /\ c < 80)
                              /\ st = "bad" <=> c < 40]_vars

\* an updateMaterial has left a material right at the upper threshold
C9_Witness ==
    /\ last.op = "updateMaterial"
    /\ last.body \in DOMAIN materials
    /\ materials[last.body].condition = 80 /\ materials[last.body].state = "good"

\* C10: updateMaterial with an id of no stored Material answers with an error (not a
\* success result) and changes no stored record.
C10_UpdateUnknownFails ==
    [][\A id \in MaterialIdInputs, keys \in Scoring.updates :
       \A c \in FieldInputs("condition", keys, Conditions),
          sid \in FieldInputs("shelfId", keys, ShelfIdInputs(Scoring)),
          p \in FieldInputs("position", keys, PositionInputs) :
        (UpdateMaterialOf(id, keys, c, sid, p) /\ id \notin DOMAIN materials)
        => /\ last'.status >= 400
           /\ UNCHANGED <<shelves, materials, inspections>>]_vars

C12_NoSuchPosition(s, p) ==
    /\ s \in DOMAIN shelves
    /\ \A pos \in PositionsOf(s) : pos.positionId # p

\* C12: when the occupancy update of createMaterial, or of deleteMaterial, is for a
\* stored shelf and a position identifier that no position of that shelf has, the
\* call answers with an error (PositionNotFound), not with a success.
C12_MissingPositionFails ==
    [][\A f \in Frames :
        /\ (CreateMaterialOccupyOf(f) /\ C12_NoSuchPosition(f.shelfId, f.position))
            => last'.status >= 400
        /\ (DeleteMaterialRemoveOf(f) /\ C12_NoSuchPosition(f.shelfId, f.position))
            => last'.status >= 400]_vars

\* C13: recordInspection(date D, materialIds S) stores the Inspection and answers
\* 201; its cascade sets lastInspection = D on every stored Material whose id is in
\* S, wherever in S the id stands, leaves the other Materials as they are, and
\* skips the ids of S that name no stored Material.
C13_CascadeSetsLastInspection ==
    [][/\ inspections' # inspections =>
          \A date \in InspectionDates, mats \in MaterialLists(Inspecting) :
            RecordInspectionSaveOf(date, mats)
            => /\ Len(inspections') = Len(inspections) + 1
               /\ inspections'[Len(inspections')] = [date |-> date, materials |-> mats]
               /\ UNCHANGED materials
       /\ \A f \in Frames :
            RecordInspectionCascadeOf(f)
            => /\ last'.op = "recordInspection" /\ last'.status = 201
               /\ DOMAIN materials' = DOMAIN materials
               /\ \A m \in DOMAIN materials :
                    IF \E i \in 1..Len(f.materials) : f.materials[i] = m
                    THEN /\ materials'[m].lastInspection = f.date
                         /\ [materials'[m] EXCEPT !.lastInspection = NoId]
                                = [materials[m] EXCEPT !.lastInspection = NoId]
                    ELSE materials'[m] = materials[m]]_vars

\* a recordInspection that lists the second Material before the first has been
\* answered, and both Materials have its date
C13_Witness ==
    /\ last.op = "recordInspection" /\ last.status = 201
    /\ Len(inspections) > 0
    /\ LET insp == inspections[Len(inspections)]
       IN /\ insp.materials = <<2, 1>>
          /\ insp.date = 2
          /\ {1, 2} \subseteq DOMAIN materials
          /\ \A m \in {1, 2} : materials[m].lastInspection = insp.date

\* C14: recordInspection never stores an Inspection whose list of materials holds
\* the id of a Material that is not stored at that moment.
C14_ReferencedMaterialsExist ==
    [][Len(inspections') > Len(inspections) =>
        \A i \in 1..Len(inspections'[Len(inspections')].materials) :
            inspections'[Len(inspections')].materials[i] \in DOMAIN materials]_vars

\* C15: in every reachable state every stored Material has a condition in 0..100.
C15_ConditionInRange ==
    \A m \in DOMAIN materials : materials[m].condition \in 0..100

\* C16: a createShelf, createMaterial, updateMaterial, deleteMaterial or
\* recordInspection call that answers with an error leaves the stored shelves,
\* materials and inspections as they were when the call began (requests handled
\* one at a time).
C16_ErrorLeavesStateUntouched ==
    [][(last' # last /\ last'.status >= 400 /\ last'.op \in Routes) =>
        IF inflight' # inflight
        THEN \A f \in Frames : f \notin BagToSet(inflight') => Stored' = f.before
        ELSE Stored' = Stored]_vars

\* C17: when stats answers, some single state of the stored records that held
\* during the call has exactly the figures of the response: the number of
\* Materials, of Materials with state good, warning and bad, of shelves and of
\* occupied positions.
C17_StatsIsSnapshot ==
    [][\A f \in Frames :
        (f.op = "stats" /\ f \notin BagToSet(inflight') /\ last'.op = "stats")
        => \E st \in f.held \cup {Stored} : Figures(st) = last'.body]_vars

\* Material ids that the store handed out and whose Material is no longer stored:
\* deleteMaterial has removed it
C18_Removed == (1..(nextMaterialId - 1)) \ DOMAIN materials

\* C18: in no reachable state, under any interleaving of createMaterial and
\* deleteMaterial calls, is a position occupied with a material reference that
\* names a Material deleteMaterial has removed.
C18_NoReferenceToRemoved ==
    \A s \in DOMAIN shelves : \A pos \in PositionsOf(s) :
        pos.occupied => pos.materialId \notin C18_Removed

\* C19: when deleteMaterial of Material m frees the position that m names, and that
\* position holds a material reference to a different stored Material, the
\* position's occupied flag and material reference stay as they are.
C19_DeleteFreesOwnClaimOnly ==
    [][\A f \in Frames :
        (DeleteMaterialFreeOf(f) /\ f.shelfId \in DOMAIN shelves)
        => \A k \in DOMAIN shelves[f.shelfId].positions :
            LET pos == shelves[f.shelfId].positions[k]
            IN (/\ pos.positionId = f.position
                /\ pos.materialId # f.id
                /\ pos.materialId \in DOMAIN materials)
               => shelves'[f.shelfId].positions[k] = pos]_vars

\* C20: in every reachable state every occupied position of a stored shelf holds a
\* material reference to a stored Material whose shelfId is that shelf and whose
\* position is that position's identifier.
C20_NoOrphanOccupancy ==
    \A s \in DOMAIN shelves : \A pos \in PositionsOf(s) :
        pos.occupied =>
            /\ pos.materialId \in DOMAIN materials
            /\ materials[pos.materialId].shelfId = s
            /\ materials[pos.materialId].position = pos.positionId
====
